---- MODULE Spec2Model ----
(***************************************************************************)
(* Lead discovery pipeline of Jouvella-Data-Scraper.                       *)
(*                                                                         *)
(* Three variants of the same script are modelled side by side:            *)
(*   variant 1 = src/index.js, variant 2 = src/index2.js,                  *)
(*   variant 3 = src/unnamed/part_000.                                     *)
(* Every action is one external call (await) together with the             *)
(* synchronous code that runs until the next external call.                *)
(***************************************************************************)
EXTENDS Integers, Sequences, FiniteSets, TLC

\* ------------------------------------------------------------------ bounds
MaxEntity == 2          \* place ids the upstream can return
MaxPages == 3           \* the page counter of one call saturates here
NumKeywords == 1        \* how many keywords of the list are swept
NEW_RESULTS_LIMIT == 1  \* per-bucket cap (20 / 20 / 5 in the source), scaled down
MaxServed == 3          \* hits the search service hands out in one run
\* hits on one page of the search service
MaxPageHits == NEW_RESULTS_LIMIT + 1
\* the maxResults the main loop passes (60 in the source): above the cap, as there
MaxResultsArg == NEW_RESULTS_LIMIT + 1

Variants == {1, 2, 3}
Entities == 1..MaxEntity
Undefined == 0 - 1      \* a numeric field the detail service left out

Min(a, b) == IF a < b THEN a ELSE b

\* sequences over S of length at most n
RECURSIVE SeqsUpTo(_, _)
SeqsUpTo(S, n) ==
  IF n = 0 THEN {<<>>}
  ELSE LET shorter == SeqsUpTo(S, n - 1)
       IN shorter \cup {Append(s, x) : s \in {t \in shorter : Len(t) = n - 1}, x \in S}

\* mutant of Slice: the cut is one element too long
SliceOneTooMany(s, n) == SubSeq(s, 1, Min(Len(s), n + 1))

\* Array.prototype.slice(0, n)
Slice(s, n) == SubSeq(s, 1, Min(Len(s), n))

VARIABLES
  variant,            \* which script runs
  run,                \* 1 = first process run, 2 = the re-run
  world,              \* the upstream: free, or fixed answers
  pc,                 \* position of the async main function
  existingPlaceIds,   \* the in-memory Set of logged place ids
  sheet,              \* column D of the 'Search Log' sheet (place ids)
  store,              \* business names of the records in the Airtable table
  bi,                 \* index of the running bucket in Buckets(variant)
  hi,                 \* index of the running hit in results
  newCount,           \* main: let newCount
  maxResults,         \* searchPlaces: argument
  allResults,         \* searchPlaces: accumulated hits (place ids)
  nextPageToken,      \* searchPlaces: truthiness of res.data.next_page_token
  results,            \* value returned by searchPlaces
  details,            \* main: const details
  businessName,       \* main: const businessName
  srch,               \* history of the running searchPlaces call
  cur,                \* history of the hit the loop is at
  hist,               \* history of the run
  served,             \* hits the search service has handed out in this run
  inflight,           \* the external calls issued and not yet returned
  qual                \* the qualification filter run on its own: input and outcomes

searchVars == <<maxResults, allResults, nextPageToken, results, srch>>
mainVars == <<run, world, existingPlaceIds, sheet, store, bi, hi, newCount,
              details, businessName, cur, hist, qual>>
vars == <<variant, pc, searchVars, mainVars, served, inflight>>

\* ------------------------------------------------ static configuration
\* require("./cities"): a list of { name, coords: "lat,lng" }.  Coordinates are
\* kept in hundredths of a degree, so the 0.03 offset is 3.
cities == <<[name |-> "Toronto", coords |-> <<4365, 0 - 7938>>]>>

searchGridOffset == 3

generateCityGrid(coord) ==
  LET lat == coord[1]
      lng == coord[2]
  IN << <<lat, lng>>,
        <<lat + searchGridOffset, lng>>,
        <<lat - searchGridOffset, lng>>,
        <<lat, lng + searchGridOffset>>,
        <<lat, lng - searchGridOffset>> >>

KeywordList(v) ==
  IF v = 1
  THEN <<"medical spa", "med spa", "medical aesthetics", "aesthetic clinic",
         "cosmetic dermatology", "laser clinic", "injectables clinic", "skin clinic">>
  ELSE <<"med spa", "aesthetic clinic", "laser hair removal">>

\* how many keywords of the list a script sweeps: part_000 has no sweep
\* points, its buckets of one city differ by keyword only
KeywordCount(v) == IF v = 3 THEN NumKeywords + 1 ELSE NumKeywords

keywords(v) == SubSeq(KeywordList(v), 1, Min(KeywordCount(v), Len(KeywordList(v))))

\* the sweep points main visits for one city
Points(v, city) == IF v = 3 THEN <<city.coords>> ELSE generateCityGrid(city.coords)

\* the nested for loops of main, flattened in iteration order:
\* city, then point, then keyword
Buckets(v) ==
  LET np == IF v = 3 THEN 1 ELSE 5
      nk == Len(keywords(v))
      n  == Len(cities) * np * nk
  IN [k \in 1..n |->
        LET c == ((k - 1) \div (np * nk)) + 1
            p == (((k - 1) \div nk) % np) + 1
            w == ((k - 1) % nk) + 1
        IN [city |-> cities[c].name,
            point |-> Points(v, cities[c])[p],
            keyword |-> keywords(v)[w],
            kw |-> w]]

\* ------------------------------------------------------- upstream data
\* The business name the upstream knows for a place id; two place ids may
\* carry the same name.
NameOf(e) == IF e % 2 = 1 THEN "Glow Med Spa" ELSE "Derma Clinic"

\* A URL as the list of its parts; String.includes / startsWith look for a part.
Includes(url, part) == \E i \in DOMAIN url : url[i] = part
StartsWith(url, part) == Len(url) > 0 /\ url[1] = part

NoUrl == <<>>
Websites ==
  {NoUrl,
   <<"http://", "oldspa.example">>,
   <<"https://", "glow", "wixsite.com", "/shop">>,
   <<"https://", "facebook.com", "/glow">>,
   <<"https://", "glowspa.example">>}

\* res.data.result || {} with every field left out
EmptyDetails(e) ==
  [name |-> "", formatted_address |-> "", website |-> NoUrl,
   formatted_phone_number |-> "", user_ratings_total |-> Undefined,
   rating |-> Undefined, business_status |-> ""]

\* rating is kept in tenths (4.2 is 42)
GoodDetails(e) ==
  [name |-> NameOf(e), formatted_address |-> "12 King St W", website |-> NoUrl,
   formatted_phone_number |-> "416-555-0100", user_ratings_total |-> 25,
   rating |-> 42, business_status |-> "OPERATIONAL"]

\* the records the detail service answers with: the complete record, every
\* record that differs from it in one field, and the empty record
DetailSamples(e) ==
  LET g == GoodDetails(e)
  IN {g, EmptyDetails(e)}
     \cup {[g EXCEPT !.name = ""], [g EXCEPT !.formatted_address = ""],
           [g EXCEPT !.formatted_phone_number = ""]}
     \cup {[g EXCEPT !.website = w] : w \in Websites}
     \cup {[g EXCEPT !.user_ratings_total = n] : n \in {Undefined, 3, 12}}
     \cup {[g EXCEPT !.rating = r] : r \in {Undefined, 25}}
     \cup {[g EXCEPT !.business_status = b] : b \in {"", "CLOSED_TEMPORARILY"}}

\* answers of the detail endpoint: a payload with a result, a payload with
\* error_message and no result, or a rejected request
DetailResponses(e) ==
  {[kind |-> "ok", result |-> d] : d \in DetailSamples(e)}
  \cup {[kind |-> k, result |-> EmptyDetails(e)] : k \in {"error", "network"}}

\* the fields of a raw search hit besides place_id
PlaceSamples(e) ==
  {[name |-> n, formatted_address |-> a] :
      n \in {"", NameOf(e)}, a \in {"", "12 King St W"}}

\* a world whose answers are not fixed
FreeWorld ==
  [free |-> TRUE,
   hits |-> [w \in 1..(NumKeywords + 1) |-> <<>>],
   details |-> [e \in Entities |-> [kind |-> "ok", result |-> GoodDetails(e)]]]

\* ---------------------------------------------------- pure functions
\* getPlaceDetails: what the caller receives for an answer of the endpoint
getPlaceDetails(v, e, resp) ==
  IF resp.kind = "ok" THEN resp.result ELSE EmptyDetails(e)

\* details.name || place.name [|| "Unknown"]
BusinessNameOf(v, d, place) ==
  IF d.name # "" THEN d.name
  ELSE IF place.name # "" THEN place.name
  ELSE IF v = 1 THEN "" ELSE "Unknown"

\* details.formatted_address [|| place.formatted_address] || ""
AddressOf(v, d, place) ==
  IF d.formatted_address # "" THEN d.formatted_address
  ELSE IF v = 3 THEN place.formatted_address
  ELSE ""

MIN_RATING == 30
MIN_REVIEWS(v) == IF v = 2 THEN 20 ELSE 5

\* x ?? dflt  and  x || dflt  on an optional number
Nullish(x, dflt) == IF x = Undefined THEN dflt ELSE x
OrElse(x, dflt) == IF x = Undefined \/ x = 0 THEN dflt ELSE x

\* index.js: evaluateWebsiteQuality
evaluateWebsiteQuality1(url) ==
  IF url = NoUrl THEN "No Website"
  ELSE IF \/ Includes(url, "linktr.ee") \/ Includes(url, "joinblvd.com")
          \/ Includes(url, "square.site") \/ Includes(url, "facebook.com")
       THEN "Poor"
       ELSE "Decent"

\* index2.js: evaluateWebsiteQuality
evaluateWebsiteQuality2(url) ==
  IF url = NoUrl THEN "No Website"
  ELSE IF Includes(url, "facebook.com") \/ Includes(url, "instagram.com")
       THEN "No Website"
       ELSE "Has Website"

freePlatforms == {"wixsite.com", "weebly.com", "wordpress.com"}

\* part_000: isWebsiteLowBudget reaches its axios.get for this url
NeedsFetch(url) ==
  /\ url # NoUrl
  /\ StartsWith(url, "https://")
  /\ ~ \E p \in freePlatforms : Includes(url, p)

\* part_000: isWebsiteLowBudget, given what the fetch did ("none" = not issued)
FetchOutcomes == {"failed", "short", "long"}

\* mutant of isWebsiteLowBudget: without the catch, a failed fetch does not
\* classify the site as low-budget
isWebsiteLowBudgetNoCatch(url, fetch) ==
  IF ~NeedsFetch(url) THEN TRUE ELSE fetch = "short"

isWebsiteLowBudget(url, fetch) ==
  IF ~NeedsFetch(url) THEN TRUE ELSE fetch # "long"

\* index.js lines 239-249 without the cache test: the hit passes every filter
Qualifies1(d, bname, addr) ==
  /\ bname # "" /\ addr # ""
  /\ d.business_status = "OPERATIONAL"
  /\ (d.website # NoUrl \/ d.formatted_phone_number # "")
  /\ ~ (OrElse(d.user_ratings_total, 0) < 5)

\* index2.js lines 178-190: addToMainTable
Qualifies2(d) ==
  /\ evaluateWebsiteQuality2(d.website) = "No Website"
  /\ ~ \/ (d.business_status # "" /\ d.business_status # "OPERATIONAL")
       \/ Nullish(d.user_ratings_total, 0) < MIN_REVIEWS(2)
       \/ Nullish(d.rating, 50) < MIN_RATING

\* mutant of Qualifies3: a missing review count is compared like a number
\* (undefined < 5 is false) instead of being tested first
Qualifies3NoUndefinedTest(d, fetch) ==
  /\ (d.website = NoUrl \/ isWebsiteLowBudget(d.website, fetch))
  /\ ~ \/ (d.business_status # "" /\ d.business_status # "OPERATIONAL")
       \/ (d.user_ratings_total # Undefined /\ d.user_ratings_total < MIN_REVIEWS(3))
       \/ (d.rating # Undefined /\ d.rating < MIN_RATING)

\* mutant of Qualifies3: the review floor is exclusive (<= instead of <)
Qualifies3FloorExclusive(d, fetch) ==
  /\ (d.website = NoUrl \/ isWebsiteLowBudget(d.website, fetch))
  /\ ~ \/ (d.business_status # "" /\ d.business_status # "OPERATIONAL")
       \/ (d.user_ratings_total = Undefined \/ d.user_ratings_total <= MIN_REVIEWS(3))
       \/ (d.rating # Undefined /\ d.rating < MIN_RATING)

\* part_000 lines 204-222: addToMainTable, given the outcome of the live fetch
Qualifies3(d, fetch) ==
  /\ (d.website = NoUrl \/ isWebsiteLowBudget(d.website, fetch))
  /\ ~ \/ (d.business_status # "" /\ d.business_status # "OPERATIONAL")
       \/ (d.user_ratings_total = Undefined \/ d.user_ratings_total < MIN_REVIEWS(3))
       \/ (d.rating # Undefined /\ d.rating < MIN_RATING)

\* ------------------------------------------------------- awaited calls
\* The external calls of the scripts.  pc names the call main is suspended on:
\* "load" the read of the log, "request" a search page, "delay" the 2 s
\* timer, "fetch" the website fetch, "isDuplicate" and "create" the record
\* store, "log" the append; "details" is the detail request, which is issued
\* and consumed inside one step.
Calls == {"load", "request", "delay", "details", "fetch", "isDuplicate", "create", "log"}

\* mutant of Awaited: logBusinessSearch is called without await
LogNotAwaited(c) == c # "log"

\* the call sites that carry an await
Awaited(c) == c \in Calls

\* the call main issues on arriving at position p
Issued(p) == IF p \in Calls THEN {p} ELSE {}

\* the calls outstanding once main, suspended on call c, has run on to
\* position p: an awaited call has returned before main runs on
Resume(infl, c, p) == (IF Awaited(c) THEN infl \ {c} ELSE infl) \cup Issued(p)

\* the filter run on its own: nothing evaluated yet
NoQual ==
  [n |-> 0,
   fetch1 |-> "none", low1 |-> FALSE, admit1 |-> FALSE,
   fetch2 |-> "none", low2 |-> FALSE, admit2 |-> FALSE]

\* ------------------------------------------------------- search service
\* One page response of the text search endpoint.  kind "network" is a
\* rejected axios.get; kind "error" is a payload carrying error_message
\* (no results, no token); kind "ok" is a normal page.
PageResponses ==
  {[kind |-> "ok", results |-> r, next_page_token |-> t] :
       r \in SeqsUpTo(Entities, MaxPageHits), t \in BOOLEAN}
  \cup {[kind |-> "error", results |-> <<>>, next_page_token |-> FALSE],
        [kind |-> "network", results |-> <<>>, next_page_token |-> FALSE]}

\* what the upstream may answer to the page request of the running bucket
PageAnswers ==
  IF world.free
  THEN {r \in PageResponses : served + Len(r.results) <= MaxServed}
  ELSE {[kind |-> "ok", results |-> world.hits[Buckets(variant)[bi].kw],
         next_page_token |-> FALSE]}

DetailAnswers(e) == IF world.free THEN DetailResponses(e) ELSE {world.details[e]}

PlaceAnswers(e) ==
  IF world.free THEN PlaceSamples(e)
  ELSE {[name |-> NameOf(e), formatted_address |-> "12 King St W"]}

FetchAnswers == IF world.free THEN FetchOutcomes ELSE {"long"}

NoSearch == [pages |-> 0, firstToken |-> "none", errorSeen |-> FALSE, afterError |-> FALSE]

\* does this response make searchPlaces throw?
SearchThrows(v, resp) ==
  \/ resp.kind = "network"
  \/ v = 3 /\ resp.kind = "error"

\* mutant of LoopAgain: the loop tests the token only
LoopAgainOnTokenOnly(token, acc, max) == token

\* while (nextPageToken && allResults.length < maxResults)
LoopAgain(token, acc, max) == token /\ Len(acc) < max

\* pc = "request": axios.get of one page and the code up to the delay
SearchRequest ==
  /\ pc = "request"
  /\ \E resp \in PageAnswers :
       /\ srch' = [pages |-> Min(srch.pages + 1, MaxPages),
                   firstToken |-> IF srch.pages = 0
                                  THEN (IF resp.next_page_token THEN "yes" ELSE "no")
                                  ELSE srch.firstToken,
                   errorSeen |-> srch.errorSeen \/ resp.kind = "error",
                   afterError |-> srch.afterError \/ srch.errorSeen]
       /\ served' = IF world.free THEN served + Len(resp.results) ELSE served
       /\ IF SearchThrows(variant, resp)
          THEN /\ pc' = "threw"
               /\ UNCHANGED <<allResults, nextPageToken, results>>
          ELSE /\ allResults' = allResults \o resp.results
               /\ nextPageToken' = resp.next_page_token
               /\ IF resp.next_page_token
                  THEN pc' = "delay" /\ UNCHANGED results
                  ELSE pc' = "returned" /\ results' = Slice(allResults', maxResults)
  /\ UNCHANGED <<variant, maxResults, mainVars>>
  /\ inflight' = Resume(inflight, pc, pc')

\* pc = "delay": the 2000 ms timer fired, then the while test
SearchDelay ==
  /\ pc = "delay"
  /\ IF LoopAgain(nextPageToken, allResults, maxResults)
     THEN pc' = "request" /\ UNCHANGED results
     ELSE pc' = "returned" /\ results' = Slice(allResults, maxResults)
  /\ UNCHANGED <<variant, maxResults, allResults, nextPageToken, srch, mainVars, served>>
  /\ inflight' = Resume(inflight, pc, pc')

\* ------------------------------------------------------------- main
NoDetails == EmptyDetails(0)

\* the hit in flight: what getPlaceDetails gave ("none" outside a hit, "ok",
\* "empty" = an answer without fields, "failed" = the request failed) and
\* whether the filters admitted it
NoHit == [kind |-> "none", admitted |-> FALSE]

NoHistory ==
  [forwards |-> [e \in Entities |-> 0],   \* calls of addToAirtable per place id
   appends |-> [e \in Entities |-> 0],    \* rows appended per place id
   loaded |-> {},                         \* the set right after the load
   bucketForwards |-> 0,                  \* calls of addToAirtable in this bucket
   bucketCalls |-> 0,                     \* calls of getPlaceDetails in this bucket
   appendFailed |-> FALSE, capCut |-> FALSE,
   \* what the first run left, kept by the re-run
   firstAppendFailed |-> FALSE, firstCapCut |-> FALSE,
   firstForwarded |-> FALSE, firstSheet |-> {}]

\* the history of the first run is kept where there is a second one
Kept(b) == ~world.free /\ b

\* a history counter; it saturates at 2
Bump(n) == IF n < 2 THEN n + 1 ELSE n

\* mutant of isLoggedInSearchLogCached: the set is never consulted
NeverLogged(placeId) == FALSE

isLoggedInSearchLogCached(placeId) == placeId \in existingPlaceIds

\* mutant of LoadedSet: a failed read marks every id as processed
LoadedSetAllOnFailure(v, ok, before, column) == IF ok THEN column ELSE Entities

\* the set loadExistingBusinesses leaves in existingPlaceIds
LoadedSet(v, ok, before, column) ==
  IF ok THEN column
  ELSE IF v = 3 THEN {} ELSE before

\* await loadExistingBusinesses()
LoadExistingBusinesses ==
  /\ pc = "load"
  /\ \E ok \in BOOLEAN :
       /\ existingPlaceIds' = LoadedSet(variant, ok, existingPlaceIds, sheet)
       /\ hist' = [hist EXCEPT !.loaded = existingPlaceIds']
  /\ pc' = "bucket"
  /\ UNCHANGED <<variant, qual, run, world, sheet, store, bi, hi, newCount, details,
                 businessName, cur, searchVars, served>>
  /\ inflight' = Resume(inflight, pc, pc')

\* the value main passes as maxResults
SearchLimitArg(v) == MaxResultsArg

\* const results = await searchPlaces(keyword, point, 60): the call
CallSearch ==
  /\ pc = "bucket"
  /\ bi <= Len(Buckets(variant))
  /\ maxResults' = SearchLimitArg(variant)
  /\ allResults' = <<>>
  /\ nextPageToken' = FALSE
  /\ srch' = NoSearch
  /\ pc' = "request"
  /\ UNCHANGED <<variant, results, mainVars, served>>
  /\ inflight' = Resume(inflight, pc, pc')

\* the for loops are exhausted
RunCompleted ==
  /\ pc = "bucket"
  /\ bi > Len(Buckets(variant))
  /\ pc' = "done"
  /\ UNCHANGED <<variant, searchVars, mainVars, served>>
  /\ inflight' = Resume(inflight, pc, pc')

\* searchPlaces returned: let newCount = 0 and the hit loop starts
SearchReturned ==
  /\ pc = "returned"
  /\ newCount' = 0
  /\ hi' = 1
  /\ hist' = [hist EXCEPT !.bucketForwards = 0, !.bucketCalls = 0]
  /\ cur' = NoHit
  /\ pc' = "hit"
  /\ allResults' = <<>>
  /\ nextPageToken' = FALSE
  /\ srch' = NoSearch
  /\ UNCHANGED <<variant, qual, run, world, existingPlaceIds, sheet, store, bi, details,
                 businessName, maxResults, results, served>>
  /\ inflight' = Resume(inflight, pc, pc')

\* mutant of AfterThrow: the failed search is swallowed and the loops go on
AfterThrowGoesOn(v) == "bucket"

\* where main is once searchPlaces has thrown: in the catch of part_000
\* ("fatal"), or ended by the unhandled rejection ("crashed")
AfterThrow(v) == IF v = 3 THEN "fatal" ELSE "crashed"

\* searchPlaces threw: part_000 catches it at top level, the other two
\* scripts end with an unhandled rejection
SearchThrew ==
  /\ pc = "threw"
  /\ pc' = AfterThrow(variant)
  /\ UNCHANGED <<variant, searchVars, mainVars, served>>
  /\ inflight' = Resume(inflight, pc, pc')

\* mutant of BreakTaken: > instead of >=
BreakTakenLate(count) == count > NEW_RESULTS_LIMIT

\* if (newCount >= NEW_RESULTS_LIMIT) break;
BreakTaken(count) == count >= NEW_RESULTS_LIMIT

\* the hit loop of this bucket ends, by exhaustion or by the break
NextBucket ==
  /\ pc = "hit"
  /\ (hi > Len(results) \/ BreakTaken(newCount))
  /\ bi' = bi + 1
  /\ hist' = [hist EXCEPT !.capCut = @ \/ Kept(hi <= Len(results))]
  /\ pc' = "bucket"
  /\ UNCHANGED <<variant, qual, run, world, existingPlaceIds, sheet, store, hi, newCount,
                 details, businessName, cur, searchVars, served>>
  /\ inflight' = Resume(inflight, pc, pc')

\* mutant of Forwarded: the admitted hit goes on without the call of
\* addToAirtable
ForwardLeftOut(h, placeId) == h

\* counting one call of addToAirtable for this place id
Forwarded(h, placeId) ==
  [h EXCEPT !.forwards[placeId] = Bump(h.forwards[placeId]),
            !.bucketForwards = h.bucketForwards + 1]

\* what main does with a hit once its details are known:
\* "skip" (continue), "fetch" (live website check), "add" (addToAirtable),
\* "log" (logBusinessSearch without adding)
Decide(v, cached, d, bname, addr) ==
  IF v = 1
  THEN IF bname = "" \/ addr = "" \/ cached THEN "skip"
       ELSE IF Qualifies1(d, bname, addr) THEN "add" ELSE "skip"
  ELSE IF cached THEN "skip"
  ELSE IF v = 2
       THEN IF Qualifies2(d) THEN "add" ELSE "log"
       ELSE IF d.website # NoUrl /\ NeedsFetch(d.website) THEN "fetch"
            ELSE IF Qualifies3(d, "none") THEN "add" ELSE "log"

DetailKind(resp, d, e) ==
  IF resp.kind # "ok" THEN "failed"
  ELSE IF d = EmptyDetails(e) THEN "empty" ELSE "ok"

\* const details = await getPlaceDetails(place.place_id) and the code up to
\* the next await
GetPlaceDetails ==
  /\ pc = "hit"
  /\ hi <= Len(results)
  /\ ~BreakTaken(newCount)
  /\ LET placeId == results[hi] IN
     \E resp \in DetailAnswers(placeId), place \in PlaceAnswers(placeId) :
       LET d == getPlaceDetails(variant, placeId, resp)
           bname == BusinessNameOf(variant, d, place)
           addr == AddressOf(variant, d, place)
           cached == isLoggedInSearchLogCached(placeId)
           todo == Decide(variant, cached, d, bname, addr)
           called == [hist EXCEPT !.bucketCalls = @ + 1]
       IN IF todo = "skip"
          THEN /\ cur' = NoHit
               /\ hi' = hi + 1
               /\ pc' = "hit"
               /\ details' = NoDetails
               /\ businessName' = ""
               /\ hist' = called
          ELSE /\ details' = IF todo = "fetch" THEN d ELSE NoDetails
               /\ businessName' = bname
               /\ hi' = hi
               /\ cur' = [kind |-> DetailKind(resp, d, placeId), admitted |-> todo = "add"]
               /\ hist' = IF todo = "add" THEN Forwarded(called, placeId) ELSE called
               /\ pc' = IF todo = "add" THEN "isDuplicate" ELSE todo
  /\ UNCHANGED <<variant, qual, run, world, existingPlaceIds, sheet, store, bi, newCount,
                 searchVars, served>>
  /\ inflight' = Resume(inflight \cup {"details"}, "details", pc')

\* part_000: the axios.get of isWebsiteLowBudget and the filters after it
WebsiteFetch ==
  /\ pc = "fetch"
  /\ \E fetch \in FetchAnswers :
       IF Qualifies3(details, fetch)
       THEN /\ cur' = [cur EXCEPT !.admitted = TRUE]
            /\ hist' = Forwarded(hist, results[hi])
            /\ pc' = "isDuplicate"
       ELSE /\ pc' = "log"
            /\ UNCHANGED <<cur, hist>>
  /\ details' = NoDetails
  /\ UNCHANGED <<variant, qual, run, world, existingPlaceIds, sheet, store, bi, hi, newCount,
                 businessName, searchVars, served>>
  /\ inflight' = Resume(inflight, pc, pc')

\* newCount after addToAirtable returned: index2.js and part_000 count here,
\* index.js counts after logBusinessSearch
CountAfterAdd(v, count) == IF v = 1 THEN count ELSE count + 1
CountAfterLog(v, count, admitted) == IF v = 1 /\ admitted THEN count + 1 ELSE count

\* isDuplicate: the select succeeded and found a record of that name
isDuplicate(ok, name, table) == IF ok THEN name \in table ELSE FALSE

\* addToAirtable: await isDuplicate(data.businessName)
IsDuplicate ==
  /\ pc = "isDuplicate"
  /\ \E ok \in BOOLEAN :
       IF isDuplicate(ok, businessName, store)
       THEN /\ newCount' = CountAfterAdd(variant, newCount)
            /\ pc' = "log"
       ELSE /\ pc' = "create"
            /\ UNCHANGED newCount
  /\ UNCHANGED <<variant, qual, run, world, existingPlaceIds, sheet, store, bi, hi, details,
                 businessName, cur, hist, searchVars, served>>
  /\ inflight' = Resume(inflight, pc, pc')

\* addToAirtable: await base(...).create([...]); a failure is caught and logged
Create ==
  /\ pc = "create"
  /\ \E ok \in BOOLEAN :
       store' = IF ok THEN store \cup {businessName} ELSE store
  /\ newCount' = CountAfterAdd(variant, newCount)
  /\ pc' = "log"
  /\ UNCHANGED <<variant, qual, run, world, existingPlaceIds, sheet, bi, hi, details,
                 businessName, cur, hist, searchVars, served>>
  /\ inflight' = Resume(inflight, pc, pc')

\* mutant of MarkAfterAppend: existingPlaceIds.add is left out
MarkNever(ids, placeId, ok) == ids

\* mutant of MarkAfterAppend: the id is marked before the append is known
\* to have succeeded
MarkBeforeAppend(ids, placeId, ok) == ids \cup {placeId}

\* logBusinessSearch: the set after the call; it grows only when the append
\* was issued and succeeded
MarkAfterAppend(ids, placeId, ok) == IF ok THEN ids \cup {placeId} ELSE ids

\* await logBusinessSearch(businessName, address, placeId) and the end of the
\* loop body
LogBusinessSearch ==
  /\ pc = "log"
  /\ LET placeId == results[hi] IN
     IF isLoggedInSearchLogCached(placeId)
     THEN UNCHANGED <<existingPlaceIds, sheet, hist>>
     ELSE \E ok \in BOOLEAN :
            /\ sheet' = IF ok THEN sheet \cup {placeId} ELSE sheet
            /\ existingPlaceIds' = MarkAfterAppend(existingPlaceIds, placeId, ok)
            /\ hist' = [hist EXCEPT
                          !.appends[placeId] = IF ok THEN Bump(@) ELSE @,
                          !.appendFailed = @ \/ Kept(~ok)]
  /\ newCount' = CountAfterLog(variant, newCount, cur.admitted)
  /\ hi' = hi + 1
  /\ cur' = NoHit
  /\ businessName' = ""
  /\ pc' = "hit"
  /\ UNCHANGED <<variant, qual, run, world, store, bi, details, searchVars, served>>
  /\ inflight' = Resume(inflight, pc, pc')

\* the script is started again, against the log and the table it left
Rerun ==
  /\ pc = "done"
  /\ run = 1
  /\ run' = 2
  /\ existingPlaceIds' = {}
  /\ bi' = 1
  /\ hi' = 1
  /\ newCount' = 0
  /\ cur' = NoHit
  /\ hist' = [NoHistory EXCEPT
                !.firstAppendFailed = hist.appendFailed,
                !.firstCapCut = hist.capCut,
                !.firstForwarded = (\E e \in Entities : hist.forwards[e] > 0),
                !.firstSheet = sheet]
  /\ pc' = "load"
  /\ served' = 0
  /\ UNCHANGED <<variant, qual, world, sheet, store, details, businessName, searchVars>>
  /\ inflight' = Resume(inflight, pc, pc')

\* ------------------------------------------------------ specifications
MainInit(w) ==
  /\ variant \in Variants
  /\ run = 1
  /\ world = w
  /\ existingPlaceIds = {}
  /\ bi = 1
  /\ hi = 1
  /\ newCount = 0
  /\ maxResults = 0
  /\ allResults = <<>>
  /\ nextPageToken = FALSE
  /\ results = <<>>
  /\ details = NoDetails
  /\ businessName = ""
  /\ srch = NoSearch
  /\ cur = NoHit
  /\ hist = NoHistory
  /\ served = 0
  /\ qual = NoQual

Init ==
  /\ MainInit(FreeWorld)
  /\ pc = "load"
  /\ inflight = Issued(pc)
  /\ sheet \in SUBSET Entities
  /\ store = {}

Next ==
  \/ LoadExistingBusinesses
  \/ CallSearch
  \/ SearchRequest
  \/ SearchDelay
  \/ SearchReturned
  \/ SearchThrew
  \/ NextBucket
  \/ GetPlaceDetails
  \/ WebsiteFetch
  \/ IsDuplicate
  \/ Create
  \/ LogBusinessSearch
  \/ RunCompleted

Spec == Init /\ [][Next]_vars

\* Two runs of the script against an upstream whose answers are fixed: every
\* search of a keyword returns the same single page, every detail request of
\* a place id gets the same answer, a fetched website is always a long page.
WorldDetailAnswers(e) ==
  {[kind |-> "ok", result |-> GoodDetails(e)],
   [kind |-> "ok", result |-> [GoodDetails(e) EXCEPT !.user_ratings_total = 3]],
   [kind |-> "ok",
    result |-> [GoodDetails(e) EXCEPT !.website = <<"https://", "glowspa.example">>]],
   [kind |-> "network", result |-> EmptyDetails(e)]}

Worlds ==
  {[free |-> FALSE, hits |-> h, details |-> d] :
      h \in [1..(NumKeywords + 1) -> SeqsUpTo(Entities, MaxResultsArg)],
      d \in {f \in [Entities -> UNION {WorldDetailAnswers(e) : e \in Entities}] :
                \A e \in Entities : f[e] \in WorldDetailAnswers(e)}}

RerunInit ==
  /\ \E w \in Worlds :
       /\ MainInit(w)
       /\ \A k \in DOMAIN w.hits : k > Len(keywords(variant)) => w.hits[k] = <<>>
  /\ pc = "load"
  /\ inflight = Issued(pc)
  /\ sheet = {}
  /\ store = {}

RerunNext ==
  \/ LoadExistingBusinesses
  \/ CallSearch
  \/ SearchRequest
  \/ SearchReturned
  \/ NextBucket
  \/ GetPlaceDetails
  \/ WebsiteFetch
  \/ IsDuplicate
  \/ Create
  \/ LogBusinessSearch
  \/ RunCompleted
  \/ Rerun

RerunSpec == RerunInit /\ [][RerunNext]_vars

\* searchPlaces alone, for every maxResults
SearchInit ==
  /\ variant \in Variants
  /\ run = 1
  /\ world = FreeWorld
  /\ existingPlaceIds = {}
  /\ sheet = {}
  /\ store = {}
  /\ bi = 1
  /\ hi = 1
  /\ newCount = 0
  /\ details = NoDetails
  /\ businessName = ""
  /\ cur = NoHit
  /\ hist = NoHistory
  /\ served = 0
  /\ qual = NoQual
  /\ pc = "request"
  /\ inflight = Issued(pc)
  /\ maxResults \in 0..MaxResultsArg
  /\ allResults = <<>>
  /\ nextPageToken = FALSE
  /\ results = <<>>
  /\ srch = NoSearch

SearchNext == SearchRequest \/ SearchDelay

SearchSpec == SearchInit /\ [][SearchNext]_vars

\* The qualification of index2.js and part_000 on its own: one enriched
\* record is put through the filter twice.
QualRecords ==
  {[GoodDetails(1) EXCEPT !.website = w, !.business_status = b,
                          !.user_ratings_total = n, !.rating = r] :
      w \in Websites, b \in {"", "OPERATIONAL", "CLOSED_TEMPORARILY"},
      n \in {Undefined, 0, 3, 5, 12}, r \in {Undefined, 25, 30, 42}}

QualInit ==
  /\ variant \in {2, 3}
  /\ run = 1
  /\ world = FreeWorld
  /\ existingPlaceIds = {}
  /\ sheet = {}
  /\ store = {}
  /\ bi = 1
  /\ hi = 1
  /\ newCount = 0
  /\ maxResults = 0
  /\ allResults = <<>>
  /\ nextPageToken = FALSE
  /\ results = <<>>
  /\ businessName = ""
  /\ srch = NoSearch
  /\ cur = NoHit
  /\ hist = NoHistory
  /\ served = 0
  /\ inflight = {}
  /\ qual = NoQual
  /\ pc = "qualify"
  /\ details \in QualRecords

\* lines 204-222 of part_000 (178-190 of index2.js) for the record in details
Qualify ==
  /\ pc = "qualify"
  /\ \E fetch \in (IF variant = 3 /\ NeedsFetch(details.website)
                    THEN FetchOutcomes ELSE {"none"}) :
       LET low == IF variant = 3 THEN isWebsiteLowBudget(details.website, fetch)
                  ELSE evaluateWebsiteQuality2(details.website) = "No Website"
           admit == IF variant = 3 THEN Qualifies3(details, fetch)
                    ELSE Qualifies2(details)
       IN qual' = IF qual.n = 0
                  THEN [qual EXCEPT !.n = 1, !.fetch1 = fetch, !.low1 = low,
                                    !.admit1 = admit]
                  ELSE [qual EXCEPT !.n = 2, !.fetch2 = fetch, !.low2 = low,
                                    !.admit2 = admit]
  /\ pc' = IF qual.n = 0 THEN "qualify" ELSE "qualified"
  /\ UNCHANGED <<variant, searchVars, run, world, existingPlaceIds, sheet, store, bi, hi,
                 newCount, details, businessName, cur, hist, served, inflight>>

QualNext == Qualify

QualSpec == QualInit /\ [][QualNext]_vars

\* main under the event loop, which runs every continuation that is ready
FairSpec == Spec /\ WF_vars(Next)
FairSearchSpec == SearchSpec /\ WF_vars(SearchNext)

\* ------------------------------------------------------------ claims

\* C1: in one run addToAirtable is called at most once for every place id,
\* whatever the record-store write and the log append do.
C1_ForwardedAtMostOnce == \A e \in Entities : hist.forwards[e] <= 1

\* the second run has loaded the log the first run left, and every append of
\* the first run succeeded
SecondRunOnFirstLog ==
  /\ run = 2 /\ pc # "load"
  /\ hist.loaded = hist.firstSheet
  /\ ~hist.firstAppendFailed

\* C2 (as claimed): a second run on the log of a first run whose appends all
\* succeeded, against the same upstream answers, calls addToAirtable for
\* no place id.
C2_RerunForwardsNothing ==
  SecondRunOnFirstLog => \A e \in Entities : hist.forwards[e] = 0

\* C2 (amended): the same, for a first run in which the per-bucket cap cut
\* off no hit.
C2_RerunForwardsNothingUncut ==
  (SecondRunOnFirstLog /\ ~hist.firstCapCut)
    => \A e \in Entities : hist.forwards[e] = 0

\* a completed second run after a first run that forwarded leads, cut none
\* off and logged every hit it processed
C2_Witness ==
  /\ SecondRunOnFirstLog /\ ~hist.firstCapCut
  /\ hist.firstForwarded /\ hist.firstSheet # {}
  /\ pc = "done"

\* the loop is at a hit it will process: not past the end, cap not reached
AtHit == pc = "hit" /\ hi <= Len(results) /\ ~BreakTaken(newCount)

\* C3: a hit whose place id is in existingPlaceIds when the loop reaches it
\* causes no getPlaceDetails request, no addToAirtable call and no append.
C3_CachedHitSkippedEntirely ==
  [][(AtHit /\ isLoggedInSearchLogCached(results[hi]))
       => /\ hist'.bucketCalls = hist.bucketCalls
          /\ hist'.forwards = hist.forwards
          /\ hist'.appends = hist.appends
          /\ sheet' = sheet]_vars

\* the step that ends the loop body for the hit at index hi
HitEnds == pc \in {"hit", "log"} /\ hi' = hi + 1

\* C4: a hit reached with its place id not in existingPlaceIds and the cap
\* not reached ends with the id in existingPlaceIds and in the log, admitted
\* or not; addToAirtable runs only for an admitted hit.
C4_ReachedHitMarkedAndLogged ==
  /\ [][(HitEnds /\ ~isLoggedInSearchLogCached(results[hi]))
          => /\ results[hi] \in existingPlaceIds'
             /\ results[hi] \in sheet']_vars
  /\ [](pc \in {"isDuplicate", "create"} => cur.admitted)

\* C5: newCount starts at 0 in every bucket, at most NEW_RESULTS_LIMIT hits
\* of a bucket reach addToAirtable, and once newCount has reached the limit
\* no further hit of the bucket is enriched, logged or forwarded.
C5_BucketCap ==
  /\ [](hist.bucketForwards <= NEW_RESULTS_LIMIT)
  /\ [][pc = "returned" => newCount' = 0]_vars
  /\ [][(pc = "hit" /\ BreakTaken(newCount))
          => /\ hist'.bucketCalls = hist.bucketCalls
             /\ hist'.forwards = hist.forwards
             /\ hist'.appends = hist.appends
             /\ sheet' = sheet
             /\ bi' = bi + 1]_vars

\* the cap is reached while hits of the bucket remain
C5_Witness == pc = "hit" /\ BreakTaken(newCount) /\ hi <= Len(results)

\* C6: in one run every place id is appended to the log at most once, and an
\* id loaded from the log at startup is never appended.
C6_AppendedAtMostOnce ==
  \A e \in Entities :
    /\ hist.appends[e] <= 1
    /\ e \in hist.loaded => hist.appends[e] = 0

\* a run that loaded an id, met it again as a hit, and appended another id
C6_Witness ==
  /\ pc = "hit" /\ hi > 1
  /\ results[hi - 1] \in hist.loaded
  /\ \E e \in Entities : hist.appends[e] = 1

\* C7: searchPlaces returns at most maxResults hits, and a first response
\* without a continuation token means exactly one page request.
C7_AtMostMaxResults ==
  /\ pc = "returned" => Len(results) <= maxResults
  /\ srch.firstToken = "no" => srch.pages = 1

\* a call of several pages whose accumulated hits were cut to maxResults
C7_Witness ==
  /\ pc = "returned" /\ srch.pages > 1
  /\ Len(allResults) > maxResults /\ Len(results) = maxResults /\ maxResults > 0

\* C8: every call of searchPlaces ends, also when every page carries a
\* continuation token and no results.
C8_SearchTerminates == <>(pc \in {"returned", "threw"})

\* C9: a page response with an explicit upstream error fails the call: no
\* hits are returned and no further page is requested.
C9_ErrorFailsCall ==
  srch.errorSeen => (pc = "threw" /\ ~srch.afterError)

\* C10: a hit whose getPlaceDetails request failed is never handed to
\* addToAirtable.
C10_FailClosed ==
  cur.kind = "failed" => (~cur.admitted /\ pc \notin {"isDuplicate", "create"})

\* a failed enrichment whose hit went on to the log step
C10_Witness == cur.kind = "failed" /\ pc = "log"

\* the positions inside the loop body of one hit, and the loop head
InHitLoop == {"hit", "fetch", "isDuplicate", "create", "log"}

\* C11: no outcome of a detail request, a website fetch, an existence check,
\* a record-store write or a log append ends the run: main goes on inside
\* the hit loop or to the next bucket, and a run in which no search call
\* throws reaches the end of the loops.
C11_ItemFailuresNeverAbort ==
  /\ [][(pc \in InHitLoop) => (pc' \in InHitLoop \cup {"bucket"})]_vars
  /\ [](pc \in {"crashed", "fatal"} => srch.pages > 0)
  /\ <>(pc \in {"done", "threw"})

\* C12: once a search call has thrown, the run is over: nothing but the
\* position of main changes any more, no call is outstanding, and from the
\* catch or the crash no step follows.
C12_SearchFailureAbortsRun ==
  /\ [][(pc \in {"threw", "crashed", "fatal"})
          => /\ pc' \in {"crashed", "fatal"}
             /\ UNCHANGED <<searchVars, mainVars, served>>]_vars
  /\ [](pc \in {"crashed", "fatal"} => (inflight = {} /\ ~ENABLED Next))

\* a run ended by a failed search after its first bucket, with buckets left
C12_Witness ==
  /\ pc \in {"crashed", "fatal"}
  /\ bi > 1 /\ bi < Len(Buckets(variant))
  /\ \E e \in Entities : hist.forwards[e] > 0

\* the ids marked since the load: those whose append succeeded
MarkedSince == {e \in Entities : hist.appends[e] > 0}

\* C13: after the startup load the set holds exactly the ids the load put in
\* and the ids marked since, and no step after the load takes an id out.
C13_CacheOnlyGrows ==
  /\ [](pc # "load" => existingPlaceIds = hist.loaded \cup MarkedSince)
  /\ [][(pc # "load") => (existingPlaceIds \subseteq existingPlaceIds')]_vars

\* a run that loaded one id, marked another and met a hit after that
C13_Witness ==
  /\ pc = "hit" /\ hi > 1
  /\ hist.loaded # {} /\ MarkedSince # {}
  /\ existingPlaceIds = Entities

\* C14: the log is read once, first: while the read is outstanding nothing
\* else has happened, the read is never issued again, and it leaves either
\* the ids of the log or, when it failed, the empty set, after which main
\* goes on to the first bucket.
C14_LoadedOnceFirst ==
  /\ [](pc = "load" => /\ inflight = {"load"} /\ existingPlaceIds = {}
                        /\ bi = 1 /\ served = 0 /\ srch = NoSearch
                        /\ hist = NoHistory /\ results = <<>>)
  /\ [][(pc # "load") => (pc' # "load")]_vars
  /\ [][(pc = "load") => (pc' = "bucket" /\ existingPlaceIds' \in {sheet, {}})]_vars

\* a completed run whose read of a non-empty log had failed
C14_Witness ==
  /\ pc = "done"
  /\ hist.loaded = {}
  /\ \E e \in sheet : hist.appends[e] = 0

\* the rules of the strict-content policy, written from the claim: floor 5,
\* rating floor 3.0, in an order other than the code's
StrictRules(d, low) ==
  /\ (d.rating = Undefined \/ d.rating >= 30)
  /\ (d.user_ratings_total # Undefined /\ d.user_ratings_total >= 5)
  /\ ~(d.business_status # "" /\ d.business_status # "OPERATIONAL")
  /\ (d.website = NoUrl \/ low)

\* the records of the scenario: OPERATIONAL, rating 4.2, and the review count
ScenarioRecord(d, count) ==
  /\ d.business_status = "OPERATIONAL" /\ d.rating = 42
  /\ d.user_ratings_total = count

\* what C15 says of one evaluation in part_000
AdmitIsAndOfRules ==
  (variant = 3 /\ qual.n >= 1)
    => /\ qual.admit1 <=> StrictRules(details, qual.low1)
       /\ (ScenarioRecord(details, 12) /\ details.website = NoUrl) => qual.admit1
       /\ ScenarioRecord(details, 3) => ~qual.admit1

\* C15 (as claimed): the decision is the AND of the rules and a function of
\* the enriched record alone: two evaluations of one record agree.
C15_AdmitIsFunctionOfRecord ==
  /\ AdmitIsAndOfRules
  /\ qual.n = 2 => qual.admit1 = qual.admit2

\* C15 (amended): the decision is the AND of the rules and a function of the
\* enriched record and of the outcome of the live fetch of its website.
C15_AdmitIsFunctionOfRecordAndFetch ==
  /\ AdmitIsAndOfRules
  /\ (qual.n = 2 /\ qual.fetch1 = qual.fetch2) => qual.admit1 = qual.admit2

\* a record with a fetched website and a review count on the floor, put
\* through part_000's filter twice with the same fetch outcome and admitted
C15_Witness ==
  /\ variant = 3 /\ qual.n = 2
  /\ qual.fetch1 = "short" /\ qual.fetch2 = "short"
  /\ details.user_ratings_total = 5
  /\ qual.admit1 /\ qual.admit2

\* the URLs the claim says need no live fetch
ClassifiedWithoutFetch(url) ==
  \/ url = NoUrl
  \/ ~StartsWith(url, "https://")
  \/ \E p \in {"wixsite.com", "weebly.com", "wordpress.com"} : Includes(url, p)

\* C16: isWebsiteLowBudget classifies an absent, non-https or free-platform
\* website as low-budget without a live fetch, fetches every other URL, and
\* classifies the site as low-budget when that fetch fails.
C16_WebsiteRule ==
  (variant = 3 /\ qual.n >= 1)
    => /\ ClassifiedWithoutFetch(details.website)
            => (qual.fetch1 = "none" /\ qual.low1)
       /\ ~ClassifiedWithoutFetch(details.website) => qual.fetch1 # "none"
       /\ qual.fetch1 = "failed" => qual.low1

\* a record whose website fetch failed and which was admitted for it
C16_Witness ==
  /\ variant = 3 /\ qual.n >= 1
  /\ qual.fetch1 = "failed" /\ qual.low1 /\ qual.admit1

\* C17: at most one external call is outstanding: while main is suspended on
\* a call that call is the only one, and where main issues the next call
\* (the detail request at the loop head, the search at the bucket head) none
\* is outstanding.
C17_OneOutstandingCall ==
  /\ Cardinality(inflight) <= 1
  /\ pc \in Calls => inflight = {pc}
  /\ pc \notin Calls => inflight = {}

\* the record-store write of a later bucket is outstanding, after appends
\* and writes of an earlier one
C17_Witness ==
  /\ pc = "create" /\ inflight = {"create"}
  /\ bi > 1
  /\ \E e \in Entities : hist.appends[e] > 0

\* C18: addToAirtable issues its create only for a business name that no
\* record of the table carries, whatever the existence check did.
C18_NoDuplicateNameCreated == pc = "create" => businessName \notin store

\* the five points of the plus pattern around a centre: the centre first,
\* then the four points one offset away along either axis
IsPlusPattern(pts, center) ==
  /\ Len(pts) = 5
  /\ pts[1] = center
  /\ {pts[i] : i \in 2..5} =
       {<<center[1] + searchGridOffset, center[2]>>,
        <<center[1] - searchGridOffset, center[2]>>,
        <<center[1], center[2] + searchGridOffset>>,
        <<center[1], center[2] - searchGridOffset>>}

\* the bucket with index k of a sweep nested city, then sweep point (5 per
\* city), then keyword
SweepIndex(k, nk) ==
  [c |-> ((k - 1) \div (5 * nk)) + 1,
   p |-> (((k - 1) \div nk) % 5) + 1,
   w |-> ((k - 1) % nk) + 1]

\* the search main issues as its k-th is the one of that bucket
SearchIsOfSweepBucket(v, k) ==
  LET ix == SweepIndex(k, Len(keywords(v)))
  IN /\ ix.c <= Len(cities)
     /\ IsPlusPattern(Points(v, cities[ix.c]), cities[ix.c].coords)
     /\ Buckets(v)[k].city = cities[ix.c].name
     /\ Buckets(v)[k].point = Points(v, cities[ix.c])[ix.p]
     /\ Buckets(v)[k].keyword = keywords(v)[ix.w]

\* C19: main searches once per bucket, in the order city, sweep point,
\* keyword over the 5 plus-pattern points of each city: every search it
\* issues is the one of the next bucket of that sweep, the bucket index
\* moves on by one only after its search returned, and a run that ends
\* without a failed search has searched all of them.
C19_OneSearchPerSweepBucket ==
  /\ [][(pc = "bucket" /\ pc' = "request") => SearchIsOfSweepBucket(variant, bi)]_vars
  /\ [][(bi' # bi) => (pc = "hit" /\ bi' = bi + 1)]_vars
  /\ [](pc = "done" => bi = Len(cities) * 5 * Len(keywords(variant)) + 1)

\* s is an initial part of t
IsPrefix(s, t) == Len(s) <= Len(t) /\ SubSeq(t, 1, Len(s)) = s

\* C20: a further page is requested only from the delay step, with a token
\* from the previous response and fewer than maxResults hits accumulated; a
\* response with a token is followed by the delay step; while the loop runs
\* the accumulated hits only grow at the end and nothing is returned; and
\* what is returned is the accumulated hits cut to maxResults.
C20_PagingOrder ==
  /\ [][(pc' = "request")
          => (pc = "delay" /\ nextPageToken /\ Len(allResults) < maxResults)]_vars
  /\ [][(pc = "request" /\ pc' # "threw" /\ nextPageToken') => (pc' = "delay")]_vars
  /\ [][(pc' \in {"request", "delay"})
          => (IsPrefix(allResults, allResults') /\ results' = <<>>)]_vars
  /\ [](pc = "returned"
          => /\ IsPrefix(results, allResults)
             /\ Len(results) = IF Len(allResults) < maxResults
                                THEN Len(allResults) ELSE maxResults)

\* the second page is about to be requested, after the delay, with hits of
\* the first page accumulated
C20_Witness ==
  /\ pc = "request" /\ srch.pages = 1
  /\ nextPageToken /\ allResults # <<>>

\* C21: for an admitted hit addToAirtable is called and has returned before
\* the append is issued, and the id is added to the set only after that
\* append: an admitted hit has had its forward attempted; while the forward
\* is outstanding the id is neither in the set nor appended; and the set and
\* the log change only in the log step, with nothing else outstanding, the
\* set taking in no id that the log does not hold.
C21_ForwardBeforeLogBeforeMark ==
  /\ [](cur.admitted => hist.forwards[results[hi]] > 0)
  /\ [](pc \in {"isDuplicate", "create"}
          => /\ cur.admitted
             /\ results[hi] \notin existingPlaceIds
             /\ hist.appends[results[hi]] = 0)
  /\ [][(pc # "load" /\ (sheet' # sheet \/ existingPlaceIds' # existingPlaceIds))
          => /\ pc = "log" /\ inflight = {"log"}
             /\ sheet' = sheet \cup {results[hi]}
             /\ existingPlaceIds' = existingPlaceIds \cup {results[hi]}]_vars

\* an admitted hit was forwarded, created in the table, then appended and
\* marked, and the loop has gone on
C21_Witness ==
  /\ pc = "hit" /\ hi > 1
  /\ hist.forwards[results[hi - 1]] = 1
  /\ hist.appends[results[hi - 1]] = 1
  /\ results[hi - 1] \in existingPlaceIds
  /\ store # {}

\* C22: every id of the set is in the log, and a log step in which no append
\* succeeded leaves the set as it was.
C22_CacheWithinLog ==
  /\ [](existingPlaceIds \subseteq sheet)
  /\ [][(pc = "log" /\ hist'.appends = hist.appends)
          => (existingPlaceIds' = existingPlaceIds)]_vars

\* an id whose append failed is met in a later bucket, found absent from
\* the set and taken through the loop body again
C22_Witness ==
  /\ pc = "isDuplicate" /\ bi > 1
  /\ hist.forwards[results[hi]] = 2
  /\ results[hi] \notin sheet
  /\ existingPlaceIds # {}

====
